---- MODULE Spec2Model ----
(***************************************************************************)
(* t3js: the OpenAI-compatible proxy (src/src/openai-server.js) in front   *)
(* of the t3.chat client (class Client, src/src/t3/config.js).             *)
(*                                                                         *)
(* Strings are sequences of one-character strings.  A backend response is  *)
(* a sequence of bytes; the bytes "C3" "A9" are the UTF-8 encoding of the  *)
(* character U+00E9, every other byte is an ASCII character.               *)
(* Three symbols stand for a longer JSON text that is never cut by the     *)
(* model:                                                                  *)
(*   "D"  for  {"type":"done"}                                             *)
(*   "I"  for  {"type":"image-gen","content":"\"u\""}                      *)
(*   "J"  for  {"type":"image-gen","content":"v"}                          *)
(***************************************************************************)
EXTENDS Integers, Sequences, FiniteSets, TLC

\* ------------------------------------------------------------------------
\* Bounds of the model.
\* ------------------------------------------------------------------------

\* Lines in one backend response body.
MaxLines == 2

\* Chunks the transport cuts one response body into.
MaxChunks == 2

\* Longest history of Client calls in which the user of the library makes
\* another call.
MaxOps == 4

\* Messages in the body of one request made with every role.
MaxMessages == 2

\* ------------------------------------------------------------------------
\* JavaScript string functions used by the decoder.
\* ------------------------------------------------------------------------

RECURSIVE Utf8Decode(_)
\* Buffer.prototype.toString(): UTF-8 decoding of one chunk on its own.  A
\* lead byte without its continuation byte in the same chunk, and a
\* continuation byte without its lead byte, decode to U+FFFD.
Utf8Decode(bytes) ==
    IF bytes = <<>> THEN <<>>
    ELSE IF Head(bytes) = "C3"
         THEN IF Len(bytes) >= 2 /\ bytes[2] = "A9"
              THEN <<"U+00E9">> \o Utf8Decode(Tail(Tail(bytes)))
              ELSE <<"U+FFFD">> \o Utf8Decode(Tail(bytes))
    ELSE IF Head(bytes) = "A9"
         THEN <<"U+FFFD">> \o Utf8Decode(Tail(bytes))
    ELSE <<Head(bytes)>> \o Utf8Decode(Tail(bytes))

\* String.prototype.indexOf(c): 0-based position of the first c, or -1.
indexOf(s, c) ==
    IF \E i \in 1..Len(s) : s[i] = c
    THEN (CHOOSE i \in 1..Len(s) : s[i] = c /\ \A j \in 1..(i-1) : s[j] # c) - 1
    ELSE -1

\* String.prototype.substring(from, to), 0-based, to exclusive.
substring(s, from, to) == SubSeq(s, from + 1, to)

RECURSIVE split(_, _)
\* String.prototype.split(sep) for a one-character separator: never empty.
split(s, sep) ==
    LET p == indexOf(s, sep)
    IN  IF p = -1 THEN <<s>>
        ELSE <<substring(s, 0, p)>> \o split(substring(s, p + 1, Len(s)), sep)

IsWhiteSpace(c) == c \in {" ", "\n"}

RECURSIVE trimStart(_)
trimStart(s) ==
    IF s # <<>> /\ IsWhiteSpace(Head(s)) THEN trimStart(Tail(s)) ELSE s

RECURSIVE trimEnd(_)
trimEnd(s) ==
    IF s # <<>> /\ IsWhiteSpace(s[Len(s)])
    THEN trimEnd(SubSeq(s, 1, Len(s) - 1)) ELSE s

\* String.prototype.trim()
trim(s) == trimEnd(trimStart(s))

\* ------------------------------------------------------------------------
\* JSON.parse, on the JSON texts of the model's alphabet.
\* ------------------------------------------------------------------------

\* The parsed value of an array element symbol.  A content of <<>> stands
\* for an absent content field (both are falsy).
ItemOf(sym) ==
    IF sym = "D" THEN [type |-> "done", content |-> <<>>]
    ELSE IF sym = "I"
    THEN [type |-> "image-gen", content |-> <<"\"", "u", "\"">>]
    ELSE [type |-> "image-gen", content |-> <<"v">>]

RECURSIVE ParseElements(_)
\* The elements between "[" and "]": element symbols separated by commas.
\* ok = FALSE stands for a SyntaxError.
ParseElements(s) ==
    IF s = <<>> \/ Head(s) \notin {"D", "I", "J"}
    THEN [ok |-> FALSE, items |-> <<>>]
    ELSE IF Len(s) = 1 THEN [ok |-> TRUE, items |-> <<ItemOf(s[1])>>]
    ELSE IF s[2] # "," THEN [ok |-> FALSE, items |-> <<>>]
    ELSE LET rest == ParseElements(SubSeq(s, 3, Len(s)))
         IN  [ok |-> rest.ok, items |-> <<ItemOf(s[1])>> \o rest.items]

\* JSON.parse(text): [kind |-> "string", value |-> the string],
\* [kind |-> "array", value |-> the elements], [kind |-> "other"] for a
\* number, or [kind |-> "throw"] for a SyntaxError.
JSONParse(text) ==
    LET t == trim(text)
        n == Len(t)
    IN  IF n >= 2 /\ t[1] = "\"" /\ t[n] = "\""
           /\ \A i \in 2..(n-1) : t[i] # "\""
        THEN [kind |-> "string", value |-> SubSeq(t, 2, n - 1)]
        ELSE IF n >= 2 /\ t[1] = "[" /\ t[n] = "]"
        THEN IF n = 2 THEN [kind |-> "array", value |-> <<>>]
             ELSE LET els == ParseElements(SubSeq(t, 2, n - 1))
                  IN  IF els.ok THEN [kind |-> "array", value |-> els.items]
                      ELSE [kind |-> "throw", value |-> <<>>]
        ELSE IF t \in {<<"0">>, <<"2">>}
        THEN [kind |-> "other", value |-> <<>>]
        ELSE [kind |-> "throw", value |-> <<>>]

\* ------------------------------------------------------------------------
\* Messages (src/src/t3/message.js).
\* ------------------------------------------------------------------------

ASSISTANT == "assistant"
USER == "user"

\* Message.new(role, content) with the id uuidv4() returned.
MessageNew(id, role, content) ==
    [id |-> id, role |-> role, content |-> content, contentType |-> "text"]

\* Message.newImage(role, url) with the id uuidv4() returned.
MessageNewImage(id, role, url) ==
    [id |-> id, role |-> role, content |-> url, contentType |-> "image"]

\* ------------------------------------------------------------------------
\* Client.parseResponse: the non-streaming decode of a whole body.
\* ------------------------------------------------------------------------

RECURSIVE lastImage_first(_, _)
\* lastImage keeping the first image result instead of the last.
lastImage_first(items, imageUrl) ==
    IF items = <<>> THEN imageUrl
    ELSE LET item == Head(items)
             p == JSONParse(item.content)
             url == IF imageUrl = <<>> /\ item.type = "image-gen"
                       /\ item.content # <<>>
                    THEN IF p.kind = "string" THEN p.value ELSE item.content
                    ELSE imageUrl
         IN  lastImage_first(Tail(items), url)

RECURSIVE lastImage(_, _)
\* The loop over dataArray: the content of the last image-gen item with a
\* content, JSON-parsed when it parses and raw otherwise.
lastImage(items, imageUrl) ==
    IF items = <<>> THEN imageUrl
    ELSE LET item == Head(items)
             p == JSONParse(item.content)
             url == IF item.type = "image-gen" /\ item.content # <<>>
                    THEN IF p.kind = "string" THEN p.value ELSE item.content
                    ELSE imageUrl
         IN  lastImage(Tail(items), url)

\* parseLine keeping in textResult the last text only.
parseLine_lastTextOnly(acc, line) ==
    LET colonPos == indexOf(line, ":")
        code == substring(line, 0, colonPos)
        jsonData == substring(line, colonPos + 1, Len(line))
        p == JSONParse(jsonData)
    IN  IF colonPos = -1 THEN acc
        ELSE IF code = <<"0">> /\ p.kind = "string"
        THEN [acc EXCEPT !.textResult = p.value]
        ELSE IF code = <<"2">> /\ p.kind = "array"
        THEN [acc EXCEPT !.imageUrl = lastImage(p.value, @)]
        ELSE acc

\* One iteration of the loop over the lines of the body.
parseLine(acc, line) ==
    LET colonPos == indexOf(line, ":")
        code == substring(line, 0, colonPos)
        jsonData == substring(line, colonPos + 1, Len(line))
        p == JSONParse(jsonData)
    IN  IF colonPos = -1 THEN acc
        ELSE IF code = <<"0">> /\ p.kind = "string"
        THEN [acc EXCEPT !.textResult = @ \o p.value]
        ELSE IF code = <<"2">> /\ p.kind = "array"
        THEN [acc EXCEPT !.imageUrl = lastImage(p.value, @)]
        ELSE acc

RECURSIVE parseLines(_, _)
parseLines(acc, lines) ==
    IF lines = <<>> THEN acc
    ELSE parseLines(parseLine(acc, Head(lines)), Tail(lines))

\* parseResponse returning a result for every response.
parseResponse_neverThrows(response) ==
    LET acc == parseLines([textResult |-> <<>>, imageUrl |-> <<>>],
                          split(response, "\n"))
    IN  [threw    |-> FALSE,
         content  |-> trim(acc.textResult),
         imageUrl |-> acc.imageUrl]

\* parseResponse(response): threw = TRUE stands for the Error 'No valid
\* content found in response'.  An imageUrl of <<>> stands for null.
parseResponse(response) ==
    LET acc == parseLines([textResult |-> <<>>, imageUrl |-> <<>>],
                          split(response, "\n"))
    IN  [threw    |-> acc.textResult = <<>> /\ acc.imageUrl = <<>>,
         content  |-> trim(acc.textResult),
         imageUrl |-> acc.imageUrl]

\* ------------------------------------------------------------------------
\* Client.sendStream: the body of the loop over the chunks.
\* ------------------------------------------------------------------------

\* The generator's locals when the loop is entered.
GenInit == [fullContent |-> <<>>, buffer |-> <<>>, isComplete |-> FALSE,
            yielded |-> <<>>]

\* The event yielded for one text.
TextDelta(text) == [chunk |-> text, complete |-> FALSE]

\* streamLine with a completion signal ending the sequence at once: the
\* completion event is yielded where the signal is read.
streamLine_completesOnSignal(g, line) ==
    LET colonPos == indexOf(line, ":")
        code == substring(line, 0, colonPos)
        jsonData == substring(line, colonPos + 1, Len(line))
        p == JSONParse(jsonData)
    IN  IF trim(line) = <<>> THEN g
        ELSE IF colonPos = -1 THEN g
        ELSE IF code = <<"0">> /\ p.kind = "string"
        THEN [g EXCEPT !.fullContent = @ \o p.value,
                       !.yielded = Append(@, TextDelta(p.value))]
        ELSE IF code = <<"2">> /\ p.kind = "array"
                /\ \E i \in 1..Len(p.value) :
                      p.value[i].type \in {"completion", "done"}
        THEN [g EXCEPT !.isComplete = TRUE,
                       !.yielded = Append(@, [chunk |-> <<>>, complete |-> TRUE])]
        ELSE g

\* streamLine skipping every line once a completion signal was read.
streamLine_stopsAfterSignal(g, line) ==
    LET colonPos == indexOf(line, ":")
        code == substring(line, 0, colonPos)
        jsonData == substring(line, colonPos + 1, Len(line))
        p == JSONParse(jsonData)
    IN  IF trim(line) = <<>> \/ g.isComplete THEN g
        ELSE IF colonPos = -1 THEN g
        ELSE IF code = <<"0">> /\ p.kind = "string"
        THEN [g EXCEPT !.fullContent = @ \o p.value,
                       !.yielded = Append(@, TextDelta(p.value))]
        ELSE IF code = <<"2">> /\ p.kind = "array"
        THEN [g EXCEPT !.isComplete =
                 @ \/ \E i \in 1..Len(p.value) :
                         p.value[i].type \in {"completion", "done"}]
        ELSE g

\* streamLine keeping in fullContent the last text only.
streamLine_contentLastOnly(g, line) ==
    LET colonPos == indexOf(line, ":")
        code == substring(line, 0, colonPos)
        jsonData == substring(line, colonPos + 1, Len(line))
        p == JSONParse(jsonData)
    IN  IF trim(line) = <<>> THEN g
        ELSE IF colonPos = -1 THEN g
        ELSE IF code = <<"0">> /\ p.kind = "string"
        THEN [g EXCEPT !.fullContent = p.value,
                       !.yielded = Append(@, TextDelta(p.value))]
        ELSE IF code = <<"2">> /\ p.kind = "array"
        THEN [g EXCEPT !.isComplete =
                 @ \/ \E i \in 1..Len(p.value) :
                         p.value[i].type \in {"completion", "done"}]
        ELSE g

\* One iteration of the loop over the complete lines of the buffer; the
\* events yielded are collected in g.yielded.
streamLine(g, line) ==
    LET colonPos == indexOf(line, ":")
        code == substring(line, 0, colonPos)
        jsonData == substring(line, colonPos + 1, Len(line))
        p == JSONParse(jsonData)
    IN  IF trim(line) = <<>> THEN g
        ELSE IF colonPos = -1 THEN g
        ELSE IF code = <<"0">> /\ p.kind = "string"
        THEN [g EXCEPT !.fullContent = @ \o p.value,
                       !.yielded = Append(@, TextDelta(p.value))]
        ELSE IF code = <<"2">> /\ p.kind = "array"
        THEN [g EXCEPT !.isComplete =
                 @ \/ \E i \in 1..Len(p.value) :
                         p.value[i].type \in {"completion", "done"}]
        ELSE g

RECURSIVE streamLines(_, _)
streamLines(g, lines) ==
    IF lines = <<>> THEN g
    ELSE streamLines(streamLine(g, Head(lines)), Tail(lines))

\* One iteration of `for await (const chunk of response.data)`: the chunk
\* is decoded on its own and appended to the buffer, the complete lines are
\* processed and the last, incomplete one is kept in the buffer.
streamChunk(g, chunk) ==
    LET buffer == g.buffer \o Utf8Decode(chunk)
        lines == split(buffer, "\n")
        n == Len(lines)
    IN  streamLines([g EXCEPT !.buffer = lines[n]], SubSeq(lines, 1, n - 1))

RECURSIVE streamChunks(_, _)
\* The loop over a whole sequence of chunks.
streamChunks(g, chunks) ==
    IF chunks = <<>> THEN g
    ELSE streamChunks(streamChunk(g, Head(chunks)), Tail(chunks))

\* ------------------------------------------------------------------------
\* The server's state (src/src/openai-server.js) and the clients' state.
\* ------------------------------------------------------------------------

\* The HTTP requests of the model.
Requests == {1, 2}

VARIABLES
    env,      \* process.env: COOKIES and CONVEX_SESSION_ID, <<>> when not set
    clients,  \* the Map `clients`: apiKey -> index of a Client in heap
    heap,     \* the Client objects constructed so far, in construction order
    uuid,     \* number of uuidv4() calls so far; the n-th call returns n
    calls,    \* the backend calls issued so far (a history of the run)
    pc,       \* pc[r]: where the handler of request r is suspended; "done"
              \* after it has answered, "failed" after it has answered an error
    req,      \* req[r]: the request: authorization header and body
    loc,      \* loc[r]: the handler's locals apiKey and client
    gen,      \* gen[r]: the locals of the sendStream generator of request r
    net,      \* net[r]: the backend response: its status (0 when there is
              \* none), its body and the bytes to come
    res,      \* res[r]: the calls made on the HTTP response, in order
    log,      \* the calls of Client methods that change a Client, in order
              \* (a history of the run)
    closed    \* the requests whose HTTP caller has closed the connection

vars == <<env, clients, heap, uuid, calls, pc, req, loc, gen, net, res, log,
          closed>>

\* The apiKey used when no Bearer key is given.
DefaultKey == <<"d", "e", "f", "a", "u", "l", "t">>

NoRequest == [authorization |-> [scheme |-> "none", key |-> <<>>],
              stream |-> FALSE, messages |-> <<>>, model |-> "none"]
NoLocals == [apiKey |-> <<>>, client |-> 0]
NoResponse == [status |-> 0, body |-> <<>>, rest |-> <<>>, chunks |-> 0]

\* new Client(cookies, convexSessionId); a threadId of 0 stands for null.
NewClient(cookies, convexSessionId) ==
    [cookies |-> cookies, convexSessionId |-> convexSessionId,
     threadId |-> 0, messages |-> <<>>]

\* Client.newConversation keeping the messages.
newConversation_keepsMessages(client) == [client EXCEPT !.threadId = 0]

\* Client.newConversation keeping the thread id.
newConversation_keepsThread(client) == [client EXCEPT !.messages = <<>>]

\* Client.newConversation()
newConversation(client) == [client EXCEPT !.threadId = 0, !.messages = <<>>]

\* Client.appendMessage putting the message first.
appendMessage_prepend(client, message) ==
    [client EXCEPT !.messages = <<message>> \o @]

\* Client.appendMessage refusing a message of the role of the last one.
appendMessage_alternating(client, message) ==
    IF client.messages # <<>>
       /\ client.messages[Len(client.messages)].role = message.role
    THEN client
    ELSE [client EXCEPT !.messages = Append(@, message)]

\* Client.appendMessage(message)
appendMessage(client, message) ==
    [client EXCEPT !.messages = Append(@, message)]

RECURSIVE appendAll(_, _)
\* t3Messages.forEach(msg => client.appendMessage(msg))
appendAll(client, messages) ==
    IF messages = <<>> THEN client
    ELSE appendAll(appendMessage(client, Head(messages)), Tail(messages))

\* Client.getMessages()
getMessages(client) == client.messages

\* Client.clearMessages()
clearMessages(client) == [client EXCEPT !.messages = <<>>]

\* Client.getThreadId(); 0 stands for null.
getThreadId(client) == client.threadId

\* A thread id that is new for every send.
threadIdOrNew_alwaysNew(client, fresh) == fresh

\* send and sendStream: this.threadId || uuidv4(), fresh being what the
\* call of uuidv4() returns.
threadIdOrNew(client, fresh) ==
    IF client.threadId # 0 THEN client.threadId ELSE fresh

\* The entries of log: the method called and the Client it is called on; a
\* send, and the first next() of a sendStream generator, with the position
\* in calls of the chat call it issues.
LogNewConversation(c) == [op |-> "newConversation", client |-> c]
LogAppendMessage(c, message) ==
    [op |-> "appendMessage", client |-> c, message |-> message]
LogClearMessages(c) == [op |-> "clearMessages", client |-> c]
LogSend(c, call) == [op |-> "send", client |-> c, call |-> call]
LogSendStream(c) == [op |-> "sendStream", client |-> c]
LogNext(c, call) == [op |-> "next", client |-> c, call |-> call]

\* Both process-wide credentials are set.
EnvSet(e) == e.COOKIES # <<>> /\ e.CONVEX_SESSION_ID # <<>>

\* resolveCredentials taking a key without colon as both credentials.
resolveCredentials_anyKey(e, apiKey) ==
    LET fromKey == ~EnvSet(e) /\ apiKey # <<>> /\ apiKey # DefaultKey
        cookies == IF EnvSet(e) THEN e.COOKIES
                   ELSE IF fromKey THEN split(apiKey, ":")[1] ELSE <<>>
        convexSessionId ==
            IF EnvSet(e) THEN e.CONVEX_SESSION_ID
            ELSE IF fromKey
                 THEN split(apiKey, ":")[Len(split(apiKey, ":"))] ELSE <<>>
    IN  [cookies |-> cookies, convexSessionId |-> convexSessionId,
         error |-> IF ~EnvSet(e) /\ ~fromKey THEN "No credentials available"
                   ELSE IF cookies = <<>> \/ convexSessionId = <<>>
                   THEN "Invalid credentials"
                   ELSE ""]

\* resolveCredentials with the two tiers in the other order: the key's
\* credentials are preferred to the process-wide ones.
resolveCredentials_keyFirst(e, apiKey) ==
    LET parts == split(apiKey, ":")
        fromKey == apiKey # <<>> /\ apiKey # DefaultKey
                   /\ indexOf(apiKey, ":") # -1
        cookies == IF fromKey THEN parts[1]
                   ELSE IF EnvSet(e) THEN e.COOKIES ELSE <<>>
        convexSessionId == IF fromKey THEN parts[2]
                           ELSE IF EnvSet(e) THEN e.CONVEX_SESSION_ID ELSE <<>>
    IN  [cookies |-> cookies, convexSessionId |-> convexSessionId,
         error |-> IF ~EnvSet(e) /\ ~fromKey THEN "No credentials available"
                   ELSE IF cookies = <<>> \/ convexSessionId = <<>>
                   THEN "Invalid credentials"
                   ELSE ""]

\* getOrCreateClient, the choice of the credentials of a new client.
\* error = "" when the credentials are usable.
resolveCredentials(e, apiKey) ==
    LET parts == split(apiKey, ":")
        fromKey == ~EnvSet(e) /\ apiKey # <<>> /\ apiKey # DefaultKey
                   /\ indexOf(apiKey, ":") # -1
        cookies == IF EnvSet(e) THEN e.COOKIES
                   ELSE IF fromKey THEN parts[1] ELSE <<>>
        convexSessionId == IF EnvSet(e) THEN e.CONVEX_SESSION_ID
                           ELSE IF fromKey THEN parts[2] ELSE <<>>
    IN  [cookies |-> cookies, convexSessionId |-> convexSessionId,
         error |-> IF ~EnvSet(e) /\ ~fromKey THEN "No credentials available"
                   ELSE IF cookies = <<>> \/ convexSessionId = <<>>
                   THEN "Invalid credentials"
                   ELSE ""]

\* convertRole leaving the role system as it is.
convertRole_systemKept(role) ==
    IF role = "system" THEN "system" ELSE IF role = "user" THEN USER ELSE ASSISTANT

\* convertOpenAIMessagesToT3, the role of one message.
convertRole(role) ==
    IF role = "system" THEN USER ELSE IF role = "user" THEN USER ELSE ASSISTANT

\* convertOpenAIMessagesToT3: Message.new(role, content) for every message;
\* the i-th message takes the id first + i.
convertOpenAIMessagesToT3(openaiMessages, first) ==
    [i \in 1..Len(openaiMessages) |->
        MessageNew(first + i, convertRole(openaiMessages[i].role),
                   openaiMessages[i].content)]

\* messagesJson holding the last message only.
messagesJson_lastOnly(messages) ==
    [i \in (IF messages = <<>> THEN {} ELSE {1}) |->
        [id |-> messages[Len(messages)].id,
         text |-> messages[Len(messages)].content,
         role |-> messages[Len(messages)].role]]

\* messagesJson of send and sendStream.
messagesJson(messages) ==
    [i \in 1..Len(messages) |->
        [id |-> messages[i].id, text |-> messages[i].content,
         role |-> messages[i].role]]

\* ------------------------------------------------------------------------
\* What the handler writes to the HTTP response.
\* ------------------------------------------------------------------------

\* res.status(status).json({error: {message, type, code}})
JsonError(status, message, type, code) ==
    [op |-> "json", status |-> status,
     data |-> [error |-> [message |-> message, type |-> type, code |-> code]]]

\* res.write(`data: ${JSON.stringify(chunk)}\n\n`) for a completion chunk.
WriteChunk(model, delta, finish_reason) ==
    [op |-> "write",
     data |-> [object |-> "chat.completion.chunk", model |-> model,
               delta |-> delta, finish_reason |-> finish_reason]]

\* res.write(`data: {"error": "${streamError.message}"}\n\n`)
WriteError(message) ==
    [op |-> "write",
     data |-> [object |-> "error", model |-> "", delta |-> <<>>,
               finish_reason |-> "null", error |-> message]]

\* res.write('data: [DONE]\n\n')
WriteDone ==
    [op |-> "write",
     data |-> [object |-> "[DONE]", model |-> "", delta |-> <<>>,
               finish_reason |-> "null"]]

\* res.end()
End == [op |-> "end"]

\* x / 4 for a length x: the JS number with its whole part and the number
\* of quarters of its fraction (0.5 is two quarters).
Quarters(x) == [whole |-> x \div 4, quarters |-> x % 4]

\* a + b for two numbers of that form.
plus(a, b) == Quarters(4 * (a.whole + b.whole) + a.quarters + b.quarters)

RECURSIVE contentLength(_)
\* messages.reduce((acc, msg) => acc + (typeof msg.content === 'string' ?
\* msg.content.length : 0), 0); every content of the model is a string.
contentLength(messages) ==
    IF messages = <<>> THEN 0
    ELSE Len(Head(messages).content) + contentLength(Tail(messages))

\* The usage object of the non-streaming response, total_tokens being
\* assigned after the object is built.
usage(messages, output) ==
    [prompt_tokens |-> Quarters(contentLength(messages)),
     completion_tokens |-> Quarters(Len(output)),
     total_tokens |-> plus(Quarters(contentLength(messages)),
                           Quarters(Len(output)))]

\* res.json(openaiResponse) of a non-streaming completion.
JsonCompletion(model, content, tokens) ==
    [op |-> "json", status |-> 200,
     data |-> [object |-> "chat.completion", model |-> model,
               role |-> "assistant", content |-> content,
               finish_reason |-> "stop", usage |-> tokens]]

RECURSIVE contentFrames_trimmed(_, _)
\* contentFrames with the test `chunk.chunk.trim()`: a text of white space
\* has no frame either.
contentFrames_trimmed(model, events) ==
    IF events = <<>> THEN <<>>
    ELSE (IF trim(Head(events).chunk) # <<>>
          THEN <<WriteChunk(model, [content |-> Head(events).chunk], "null")>>
          ELSE <<>>)
         \o contentFrames_trimmed(model, Tail(events))

RECURSIVE contentFrames(_, _)
\* The body of `for await (const chunk of client.sendStream(...))` for the
\* events that are not the completion event: one write per event whose
\* chunk.chunk is truthy (a non-empty string).
contentFrames(model, events) ==
    IF events = <<>> THEN <<>>
    ELSE (IF Head(events).chunk # <<>>
          THEN <<WriteChunk(model, [content |-> Head(events).chunk], "null")>>
          ELSE <<>>)
         \o contentFrames(model, Tail(events))

\* finalFrames with the sentinel written before the last frame.
finalFrames_sentinelFirst(model) ==
    <<WriteDone, WriteChunk(model, <<>>, "stop"), End>>

\* The writes made when the completion event is pulled.
finalFrames(model) == <<WriteChunk(model, <<>>, "stop"), WriteDone, End>>

\* errorFrames without the sentinel.
errorFrames_noSentinel(message) == <<WriteError(message), End>>

\* errorFrames without the end of the response.
errorFrames_notEnded(message) == <<WriteError(message), WriteDone>>

\* The catch block of the streaming branch.
errorFrames(message) == <<WriteError(message), WriteDone, End>>

\* ------------------------------------------------------------------------
\* The inputs of the model.
\* ------------------------------------------------------------------------

AuthNone == [scheme |-> "none", key |-> <<>>]
Bearer(key) == [scheme |-> "Bearer", key |-> key]

\* Bearer keys: one that encodes two credentials and one that does not.
KeyCS == <<"c", ":", "s">>
KeyK == <<"k">>

Auths == {AuthNone, Bearer(KeyCS), Bearer(KeyK)}

\* Bearer keys with a second colon, and with nothing after the colon.
KeyCST == <<"c", ":", "s", ":", "t">>
KeyC == <<"c", ":">>

AuthsAll == Auths \cup {Bearer(KeyCST), Bearer(KeyC)}

EnvUnset == [COOKIES |-> <<>>, CONVEX_SESSION_ID |-> <<>>]
EnvBoth == [COOKIES |-> <<"e">>, CONVEX_SESSION_ID |-> <<"f">>]
Envs == {EnvUnset, EnvBoth}

\* Only one of the two process-wide credentials is set.
EnvCookiesOnly == [COOKIES |-> <<"e">>, CONVEX_SESSION_ID |-> <<>>]
EnvsAll == Envs \cup {EnvCookiesOnly}

\* The `messages` of a request body.
Msgs == { <<[role |-> "user", content |-> <<"h", "i">>]>>,
          <<[role |-> "system", content |-> <<"s">>],
            [role |-> "user", content |-> <<"h">>]>> }

MsgsOne == { <<[role |-> "user", content |-> <<"h", "i">>]>> }

\* The roles a caller gives to its messages.
OpenAIRoles == {"system", "user", "assistant", "tool"}

\* The content of the i-th message of a request: one letter, its own.
Letters == <<"p", "q", "r", "s">>

\* Every `messages` of 1 to MaxMessages messages with these roles.
MsgsRoles ==
    UNION { { [i \in 1..n |-> [role |-> f[i], content |-> <<Letters[i]>>]] :
              f \in [1..n -> OpenAIRoles] } : n \in 1..MaxMessages }

\* The lines a backend response is made of: texts "a", U+00E9, "" and " ",
\* a line without colon, a payload that is not JSON, a completion signal,
\* an image result and two image results.
Lines == { <<"0", ":", "\"", "a", "\"">>,
           <<"0", ":", "\"", "C3", "A9", "\"">>,
           <<"0", ":", "\"", "\"">>,
           <<"0", ":", "\"", " ", "\"">>,
           <<"g">>,
           <<"0", ":", "a">>,
           <<"2", ":", "[", "D", "]">>,
           <<"2", ":", "[", "I", "]">>,
           <<"2", ":", "[", "I", ",", "J", "]">> }

RECURSIVE Terminated(_)
\* The bodies of at most n lines, each ended by a newline.
Terminated(n) ==
    IF n = 0 THEN {<<>>}
    ELSE {<<>>} \cup
         {l \o <<"\n">> \o b : l \in Lines, b \in Terminated(n - 1)}

\* The bodies of at most MaxLines lines; the last line may lack its newline.
Bodies == Terminated(MaxLines) \cup
          {b \o l : b \in Terminated(MaxLines - 1), l \in Lines}

\* The bodies of the runs with two requests.
SmallBodies == { <<"0", ":", "\"", "a", "\"", "\n">> }

\* ------------------------------------------------------------------------
\* The state after the server has started.
\* ------------------------------------------------------------------------

\* The state after the server has started with one of the environments E.
InitWith(E) ==
    /\ env \in E
    /\ clients = <<>>
    /\ heap = <<>>
    /\ uuid = 0
    /\ calls = <<>>
    /\ pc = [r \in Requests |-> "idle"]
    /\ req = [r \in Requests |-> NoRequest]
    /\ loc = [r \in Requests |-> NoLocals]
    /\ gen = [r \in Requests |-> GenInit]
    /\ net = [r \in Requests |-> NoResponse]
    /\ res = [r \in Requests |-> <<>>]
    /\ log = <<>>
    /\ closed = {}

Init == InitWith(Envs)

\* The outer catch of the handler: res.status(500).json(...).
InternalError(message) ==
    JsonError(500, message, "internal_server_error", "internal_error")

\* ------------------------------------------------------------------------
\* app.post('/v1/chat/completions'): the handler of request r, cut at its
\* suspension points.
\* ------------------------------------------------------------------------

\* clients.has(apiKey) answering false for every key.
clientsHas_never(map, apiKey) == FALSE

\* clients.has(apiKey)
clientsHas(map, apiKey) == apiKey \in DOMAIN map

\* The registry key of a request being 'default' whatever its header.
apiKeyOf_default(a) == DefaultKey

\* The registry key of a request with the authorization header a: the text
\* after 'Bearer ', or 'default'.
apiKeyOf(a) == IF a.scheme = "Bearer" THEN a.key ELSE DefaultKey

\* The request arrives: the handler runs up to `await getOrCreateClient`,
\* and getOrCreateClient runs up to its return or to `await client.init()`.
Arrive(r, A, M) ==
    /\ pc[r] = "idle"
    /\ \E a \in A, st \in BOOLEAN, ms \in M :
        LET bearer == a.scheme = "Bearer"
            apiKey == apiKeyOf(a)
            cr == resolveCredentials(env, apiKey)
        IN  /\ req' = [req EXCEPT ![r] =
                         [authorization |-> a, stream |-> st,
                          messages |-> ms, model |-> "gpt-4"]]
            /\ IF ~EnvSet(env) /\ ~bearer
               THEN /\ res' = [res EXCEPT ![r] =
                        <<JsonError(401, "Authorization header required",
                                    "invalid_request_error", "invalid_api_key")>>]
                    /\ pc' = [pc EXCEPT ![r] = "failed"]
                    /\ UNCHANGED <<loc, heap, calls>>
               ELSE IF clientsHas(clients, apiKey)
               THEN /\ loc' = [loc EXCEPT ![r] =
                        [apiKey |-> apiKey, client |-> clients[apiKey]]]
                    /\ pc' = [pc EXCEPT ![r] = "gotClient"]
                    /\ UNCHANGED <<res, heap, calls>>
               ELSE IF cr.error # ""
               THEN /\ res' = [res EXCEPT ![r] = <<InternalError(cr.error)>>]
                    /\ loc' = [loc EXCEPT ![r] = [apiKey |-> apiKey, client |-> 0]]
                    /\ pc' = [pc EXCEPT ![r] = "failed"]
                    /\ UNCHANGED <<heap, calls>>
               ELSE /\ heap' = Append(heap, NewClient(cr.cookies, cr.convexSessionId))
                    /\ loc' = [loc EXCEPT ![r] =
                        [apiKey |-> apiKey, client |-> Len(heap) + 1]]
                    /\ calls' = Append(calls, [kind |-> "init", by |-> r,
                                               client |-> Len(heap) + 1])
                    /\ pc' = [pc EXCEPT ![r] = "probing"]
                    /\ UNCHANGED res
    /\ UNCHANGED <<env, clients, uuid, gen, net, log, closed>>

\* client.init() returns ok: getOrCreateClient caches and returns the
\* client, or throws.
ProbeDone(r) ==
    /\ pc[r] = "probing"
    /\ \E ok \in BOOLEAN :
        IF ok
        THEN /\ clients' = [k \in DOMAIN clients \cup {loc[r].apiKey} |->
                              IF k = loc[r].apiKey THEN loc[r].client
                              ELSE clients[k]]
             /\ pc' = [pc EXCEPT ![r] = "gotClient"]
             /\ UNCHANGED res
        ELSE /\ res' = [res EXCEPT ![r] =
                 <<InternalError("Failed to initialize T3Router client")>>]
             /\ pc' = [pc EXCEPT ![r] = "failed"]
             /\ UNCHANGED clients
    /\ UNCHANGED <<env, heap, uuid, calls, req, loc, gen, net, log, closed>>

\* The handler resumes with its client: it resets the conversation, appends
\* the converted messages and starts send or sendStream, which runs up to
\* `await this.client.post(...)`.
Setup(r) ==
    /\ pc[r] = "gotClient"
    /\ LET c == loc[r].client
           n == Len(req[r].messages)
           t3Messages == convertOpenAIMessagesToT3(req[r].messages, uuid)
           session == appendAll(newConversation(heap[c]), t3Messages)
           \* uuidv4() is called for the thread id only when none is set,
           \* and newConversation() has just cleared it
           threadId == threadIdOrNew(session, uuid + n + 1)
           responseMessageId == uuid + n + 2
       IN  /\ heap' = [heap EXCEPT ![c] = [session EXCEPT !.threadId = threadId]]
           /\ uuid' = responseMessageId
           /\ calls' = Append(calls,
                 [kind |-> "chat", by |-> r, client |-> c,
                  stream |-> req[r].stream,
                  messages |-> messagesJson(session.messages),
                  threadId |-> threadId,
                  responseMessageId |-> responseMessageId])
           /\ res' = [res EXCEPT ![r] =
                 IF req[r].stream
                 THEN <<WriteChunk(req[r].model, [role |-> "assistant"], "null")>>
                 ELSE <<>>]
           /\ log' = log \o <<LogNewConversation(c)>>
                 \o [i \in 1..n |-> LogAppendMessage(c, t3Messages[i])]
                 \o (IF req[r].stream
                     THEN <<LogSendStream(c), LogNext(c, Len(calls) + 1)>>
                     ELSE <<LogSend(c, Len(calls) + 1)>>)
    /\ pc' = [pc EXCEPT ![r] = "posting"]
    /\ UNCHANGED <<env, clients, req, loc, gen, net, closed>>

\* The Error the transport rejects the post with when the backend answers
\* with a status that is not 2xx.
StatusRejection(status) ==
    "Request failed with status code " \o ToString(status)

\* The Error thrown after the post: `Failed to send message: ${status}`.
StatusError(status) == "Failed to send message: " \o ToString(status)

\* The ways the post fails: no response at all, and a response with a
\* status that is not 2xx, which the transport rejects or hands over.
PostFailures ==
    { [status |-> 0, message |-> "socket hang up"],
      [status |-> 404, message |-> StatusRejection(404)],
      [status |-> 500, message |-> StatusError(500)] }

\* The catch block of send without the message of the error caught.
sendError_generic(message) == "Request failed"

\* The catch block of send: `Request failed: ${error.message}`.
sendError(message) == "Request failed: " \o message

\* The catch block of sendStream: `Streaming request failed: ${error.message}`.
sendStreamError(message) == "Streaming request failed: " \o message

\* The catch block rolling the thread id back.
catchRethrow_rollsBack(client) == [client EXCEPT !.threadId = 0]

\* The catch blocks of send and sendStream, `throw new Error(...)`: the
\* Client after them is the Client the error has found.
catchRethrow(client) == client

\* The post fails (a network error or a status that is not 2xx): send and
\* sendStream rethrow, the handler answers in its catch block.
PostFail(r) ==
    /\ pc[r] = "posting"
    /\ \E cause \in PostFailures :
        /\ res' = [res EXCEPT ![r] =
              IF req[r].stream
              THEN @ \o errorFrames(sendStreamError(cause.message))
              ELSE <<InternalError(sendError(cause.message))>>]
        /\ net' = [net EXCEPT ![r] = [NoResponse EXCEPT !.status = cause.status]]
    /\ heap' = [heap EXCEPT ![loc[r].client] = catchRethrow(@)]
    /\ pc' = [pc EXCEPT ![r] = "failed"]
    /\ UNCHANGED <<env, clients, uuid, calls, req, loc, gen, log, closed>>

\* The post succeeds with a response whose body is one of B.  send parses
\* the whole body, appends the reply and the handler answers; sendStream
\* enters its loop over the chunks.
PostOK(r, B) ==
    /\ pc[r] = "posting"
    /\ \E body \in B :
        LET c == loc[r].client
            parsed == parseResponse(Utf8Decode(body))
            responseMessage ==
                IF parsed.imageUrl # <<>>
                THEN MessageNewImage(uuid + 1, ASSISTANT, parsed.imageUrl)
                ELSE MessageNew(uuid + 1, ASSISTANT, parsed.content)
        IN  IF req[r].stream
            THEN /\ net' = [net EXCEPT ![r] =
                       [status |-> 200, body |-> body, rest |-> body, chunks |-> 0]]
                 /\ gen' = [gen EXCEPT ![r] = GenInit]
                 /\ pc' = [pc EXCEPT ![r] = "streaming"]
                 /\ UNCHANGED <<heap, uuid, res, log>>
            ELSE /\ net' = [net EXCEPT ![r] =
                       [status |-> 200, body |-> body, rest |-> <<>>, chunks |-> 0]]
                 /\ pc' = [pc EXCEPT ![r] = IF parsed.threw THEN "failed" ELSE "done"]
                 /\ IF parsed.threw
                    THEN /\ res' = [res EXCEPT ![r] =
                               <<InternalError(sendError("No valid content found in response"))>>]
                         /\ heap' = [heap EXCEPT ![c] = catchRethrow(@)]
                         /\ UNCHANGED <<uuid, log>>
                    ELSE /\ heap' = [heap EXCEPT ![c].messages =
                                        Append(@, responseMessage)]
                         /\ uuid' = uuid + 1
                         /\ log' = Append(log,
                                LogAppendMessage(c, responseMessage))
                         /\ res' = [res EXCEPT ![r] =
                               <<JsonCompletion(req[r].model,
                                    responseMessage.content,
                                    usage(req[r].messages,
                                          responseMessage.content))>>]
                 /\ UNCHANGED gen
    /\ UNCHANGED <<env, clients, calls, req, loc, closed>>

\* The next chunk of the body arrives: the generator decodes it and yields
\* its events one by one, the handler writes a frame for each.
Chunk(r) ==
    /\ pc[r] = "streaming"
    /\ \E k \in 1..Len(net[r].rest) :
        /\ (net[r].chunks + 1 < MaxChunks \/ k = Len(net[r].rest))
        /\ LET chunk == SubSeq(net[r].rest, 1, k)
               g == streamChunk(gen[r], chunk)
               new == SubSeq(g.yielded, Len(gen[r].yielded) + 1, Len(g.yielded))
           IN  /\ gen' = [gen EXCEPT ![r] = g]
               /\ res' = [res EXCEPT ![r] = @ \o contentFrames(req[r].model, new)]
               /\ net' = [net EXCEPT ![r].rest = SubSeq(@, k + 1, Len(@)),
                                     ![r].chunks = @ + 1]
    /\ UNCHANGED <<env, clients, heap, uuid, calls, pc, req, loc, log, closed>>

\* The body has ended: the generator appends the reply and yields the
\* completion event, the handler writes the last frames and breaks.
StreamEnd(r) ==
    /\ pc[r] = "streaming"
    /\ net[r].rest = <<>>
    /\ LET c == loc[r].client
           responseMessage == MessageNew(uuid + 1, ASSISTANT,
                                         trim(gen[r].fullContent))
       IN  /\ heap' = [heap EXCEPT ![c].messages = Append(@, responseMessage)]
           /\ uuid' = uuid + 1
           /\ gen' = [gen EXCEPT ![r].yielded =
                 Append(@, [chunk |-> <<>>, complete |-> TRUE,
                            fullMessage |-> responseMessage])]
           /\ res' = [res EXCEPT ![r] = @ \o finalFrames(req[r].model)]
           /\ log' = Append(log, LogAppendMessage(c, responseMessage))
    /\ pc' = [pc EXCEPT ![r] = "done"]
    /\ UNCHANGED <<env, clients, calls, req, loc, net, closed>>

\* The transport fails while the body is read: the generator rethrows and
\* the handler answers in the catch block of the streaming branch.
StreamError(r) ==
    /\ pc[r] = "streaming"
    /\ res' = [res EXCEPT ![r] = @ \o errorFrames(sendStreamError("aborted"))]
    /\ heap' = [heap EXCEPT ![loc[r].client] = catchRethrow(@)]
    /\ pc' = [pc EXCEPT ![r] = "failed"]
    /\ UNCHANGED <<env, clients, uuid, calls, req, loc, gen, net, log, closed>>

\* The HTTP caller of request r closes the connection while the streaming
\* response is under way.  The handler registers no listener for it and
\* res.write() on a closed connection does not throw: nothing else changes.
Disconnect(r) ==
    /\ req[r].stream
    /\ pc[r] \in {"posting", "streaming"}
    /\ r \notin closed
    /\ closed' = closed \cup {r}
    /\ UNCHANGED <<env, clients, heap, uuid, calls, pc, req, loc, gen, net,
                   res, log>>

\* One step of the handler of request r.
Handler(r, A, M, B) ==
    \/ Arrive(r, A, M)
    \/ ProbeDone(r)
    \/ Setup(r)
    \/ PostFail(r)
    \/ PostOK(r, B)
    \/ Chunk(r)
    \/ StreamEnd(r)
    \/ StreamError(r)

\* One request, every response body.
Next == Handler(1, Auths, Msgs, Bodies)

Spec == Init /\ [][Next]_vars

\* One request whose caller may close the connection.
NextClose ==
    \/ Handler(1, Auths, MsgsOne, SmallBodies)
    \/ Disconnect(1)

SpecClose == Init /\ [][NextClose]_vars

\* The same request when the backend eventually answers the post or fails
\* it, and the body of an answer eventually ends or fails: whenever the
\* promise the handler awaits can settle, it eventually does and the event
\* loop resumes the handler.
SpecLive ==
    /\ Init
    /\ [][NextClose]_vars
    /\ WF_vars(PostFail(1) \/ PostOK(1, SmallBodies))
    /\ WF_vars(StreamError(1) \/ StreamEnd(1) \/ Chunk(1))

\* One request, the messages of every role.
NextRoles == Handler(1, Auths, MsgsRoles, SmallBodies)

SpecRoles == Init /\ [][NextRoles]_vars

\* Two concurrent requests.
NextConc == \E r \in Requests : Handler(r, Auths, Msgs, SmallBodies)

SpecConc == Init /\ [][NextConc]_vars

\* Two concurrent requests, every authorization header and environment.
NextAuth == \E r \in Requests : Handler(r, AuthsAll, MsgsOne, SmallBodies)

SpecAuth == InitWith(EnvsAll) /\ [][NextAuth]_vars

\* ------------------------------------------------------------------------
\* The Client used as a library: a program that holds one Client and calls
\* its methods in any order, with at most two send or sendStream calls
\* pending at a time.  A pending call t is consumed as the handler consumes
\* it; req[t] holds the arguments of the call (for sendStream, `messages`
\* holds newMessage until the generator starts).
\* ------------------------------------------------------------------------

\* The roles of the messages the program constructs.
Roles == {USER, ASSISTANT}

\* The state after `new Client(cookies, convexSessionId)`.
InitClient ==
    /\ env = EnvUnset
    /\ clients = <<>>
    /\ heap = <<NewClient(<<"c">>, <<"s">>)>>
    /\ uuid = 0
    /\ calls = <<>>
    /\ pc = [r \in Requests |-> "idle"]
    /\ req = [r \in Requests |-> NoRequest]
    /\ loc = [r \in Requests |-> NoLocals]
    /\ gen = [r \in Requests |-> GenInit]
    /\ net = [r \in Requests |-> NoResponse]
    /\ res = [r \in Requests |-> <<>>]
    /\ log = <<>>
    /\ closed = {}

\* The values of the optional parameter newMessage: null (<<>>) or a
\* message made with Message.new, whose id is the next uuid.
NewMessages(R) ==
    {<<>>} \cup {<<MessageNew(uuid + 1, role, <<"h", "i">>)>> : role \in R}

\* No call is pending in slot t.
Free(t) == pc[t] \in {"idle", "done", "failed"}

\* client.newConversation()
UserNewConversation(c) ==
    /\ Len(log) < MaxOps
    /\ heap' = [heap EXCEPT ![c] = newConversation(@)]
    /\ log' = Append(log, LogNewConversation(c))
    /\ UNCHANGED <<env, clients, uuid, calls, pc, req, loc, gen, net, res,
                   closed>>

\* client.appendMessage(Message.new(role, 'hi'))
UserAppendMessage(c, R) ==
    /\ Len(log) < MaxOps
    /\ \E role \in R :
        LET message == MessageNew(uuid + 1, role, <<"h", "i">>)
        IN  /\ heap' = [heap EXCEPT ![c] = appendMessage(@, message)]
            /\ log' = Append(log, LogAppendMessage(c, message))
    /\ uuid' = uuid + 1
    /\ UNCHANGED <<env, clients, calls, pc, req, loc, gen, net, res, closed>>

\* client.clearMessages()
UserClearMessages(c) ==
    /\ Len(log) < MaxOps
    /\ heap' = [heap EXCEPT ![c] = clearMessages(@)]
    /\ log' = Append(log, LogClearMessages(c))
    /\ UNCHANGED <<env, clients, uuid, calls, pc, req, loc, gen, net, res,
                   closed>>

\* The body of send and of sendStream up to `await this.client.post(...)`:
\* newMessage is appended, the thread id is kept or made, the payload is
\* built from the messages and posted.  `made` is the number of uuids made
\* before the body runs, `entry` the log entry of the call.
BeginChat(t, c, newMessage, stream, made, entry) ==
    LET appended == IF newMessage # <<>>
                    THEN appendMessage(heap[c], newMessage[1]) ELSE heap[c]
        threadId == threadIdOrNew(appended, uuid + made + 1)
        responseMessageId ==
            IF appended.threadId # 0 THEN uuid + made + 1 ELSE uuid + made + 2
    IN  /\ heap' = [heap EXCEPT ![c] = [appended EXCEPT !.threadId = threadId]]
        /\ uuid' = responseMessageId
        /\ calls' = Append(calls,
              [kind |-> "chat", by |-> t, client |-> c, stream |-> stream,
               messages |-> messagesJson(appended.messages),
               threadId |-> threadId,
               responseMessageId |-> responseMessageId])
        /\ log' = log
              \o (IF newMessage # <<>>
                  THEN <<LogAppendMessage(c, newMessage[1])>> ELSE <<>>)
              \o <<entry>>
        /\ pc' = [pc EXCEPT ![t] = "posting"]

\* client.send('gpt-4', newMessage, config), up to the post.
UserSend(t, c, R) ==
    /\ Len(log) < MaxOps
    /\ Free(t)
    /\ \E newMessage \in NewMessages(R) :
        BeginChat(t, c, newMessage, FALSE, Len(newMessage),
                  LogSend(c, Len(calls) + 1))
    /\ req' = [req EXCEPT ![t] = [NoRequest EXCEPT !.model = "gpt-4"]]
    /\ loc' = [loc EXCEPT ![t] = [apiKey |-> <<>>, client |-> c]]
    /\ res' = [res EXCEPT ![t] = <<>>]
    /\ UNCHANGED <<env, clients, gen, net, closed>>

\* client.sendStream('gpt-4', newMessage, config): the generator object is
\* made, its body does not run before the first next().
UserSendStream(t, c, R) ==
    /\ Len(log) < MaxOps
    /\ Free(t)
    /\ \E newMessage \in NewMessages(R) :
        /\ req' = [req EXCEPT ![t] =
              [NoRequest EXCEPT !.model = "gpt-4", !.stream = TRUE,
                                !.messages = newMessage]]
        /\ uuid' = uuid + Len(newMessage)
    /\ loc' = [loc EXCEPT ![t] = [apiKey |-> <<>>, client |-> c]]
    /\ res' = [res EXCEPT ![t] = <<>>]
    /\ pc' = [pc EXCEPT ![t] = "created"]
    /\ log' = Append(log, LogSendStream(c))
    /\ UNCHANGED <<env, clients, heap, calls, gen, net, closed>>

\* The first next() of the generator of slot t: its body runs up to the
\* post.
UserNext(t) ==
    /\ Len(log) < MaxOps
    /\ pc[t] = "created"
    /\ BeginChat(t, loc[t].client, req[t].messages, TRUE, 0,
                 LogNext(loc[t].client, Len(calls) + 1))
    /\ UNCHANGED <<env, clients, req, loc, gen, net, res, closed>>

\* One step of the program on Client c, its pending calls in the slots.
ClientStep(c, R, B) ==
    \/ UserNewConversation(c)
    \/ UserAppendMessage(c, R)
    \/ UserClearMessages(c)
    \/ \E t \in Requests :
        \/ UserSend(t, c, R)
        \/ UserSendStream(t, c, R)
        \/ UserNext(t)
        \/ PostFail(t)
        \/ PostOK(t, B)
        \/ Chunk(t)
        \/ StreamEnd(t)
        \/ StreamError(t)

NextClient == ClientStep(1, Roles, SmallBodies)

SpecClient == InitClient /\ [][NextClient]_vars

\* The bodies of the calls made one at a time: one with a text and one
\* with no content.
ContentOrNone == SmallBodies \cup { <<>> }

\* One step of a program that makes its send and sendStream calls on Client
\* c one at a time, with or without a new user message.
NextSend ==
    \/ UserSend(1, 1, {USER})
    \/ UserSendStream(1, 1, {USER})
    \/ UserNext(1)
    \/ PostFail(1)
    \/ PostOK(1, ContentOrNone)
    \/ Chunk(1)
    \/ StreamEnd(1)
    \/ StreamError(1)

SpecSend == InitClient /\ [][NextSend]_vars

\* ------------------------------------------------------------------------
\* Vocabulary of the properties.
\* ------------------------------------------------------------------------

\* Request r was a streaming request and its sendStream pass has ended
\* without error (the completion event has been pulled).
StreamSucceeded(r) == req[r].stream /\ pc[r] = "done"

\* Request r has started send or sendStream.
ChatStarted(r) == \E i \in 1..Len(calls) : calls[i].kind = "chat" /\ calls[i].by = r

\* The sendStream pass of streaming request r has failed.
StreamFailed(r) == req[r].stream /\ pc[r] = "failed" /\ ChatStarted(r)

\* The texts of the TextDelta events among the events, in order.
DeltaTexts(events) ==
    LET ds == SelectSeq(events, LAMBDA e : ~e.complete)
    IN  [i \in 1..Len(ds) |-> ds[i].chunk]

\* The positions of the completion events among the events.
Completions(events) == {i \in 1..Len(events) : events[i].complete}

\* The last message of the session of request r.
LastMessage(r) ==
    LET ms == heap[loc[r].client].messages IN ms[Len(ms)]

\* A line has type code "0" and a payload that parses to a JSON string.
IsTextLine(line) ==
    /\ indexOf(line, ":") = 1
    /\ line[1] = "0"
    /\ JSONParse(SubSeq(line, 3, Len(line))).kind = "string"

TextOfLine(line) == JSONParse(SubSeq(line, 3, Len(line))).value

RECURSIVE TextsOfLines(_)
\* The JSON strings of the text lines among the lines, in order.
TextsOfLines(lines) ==
    IF lines = <<>> THEN <<>>
    ELSE (IF IsTextLine(Head(lines)) THEN <<TextOfLine(Head(lines))>> ELSE <<>>)
         \o TextsOfLines(Tail(lines))

\* The lines of a response body: the text between the newlines, and the
\* text after the last newline.
LinesOfBody(body) == split(Utf8Decode(body), "\n")

\* The text after the last newline of a body.
LastLineOfBody(body) == LinesOfBody(body)[Len(LinesOfBody(body))]

\* ------------------------------------------------------------------------
\* C1..C10
\* ------------------------------------------------------------------------

\* C1 (as claimed): framing-boundary invariance.  However the transport cut
\* the body into chunks, a sendStream pass that has ended yielded the same
\* TextDelta texts, and stored the same assistant message, as the pass that
\* receives the whole body as one chunk.
C1_FramingInvariance ==
    \A r \in Requests :
        StreamSucceeded(r) =>
            LET one == streamChunks(GenInit, <<net[r].body>>)
            IN  /\ DeltaTexts(gen[r].yielded) = DeltaTexts(one.yielded)
                /\ Completions(gen[r].yielded) = {Len(gen[r].yielded)}
                /\ LastMessage(r).content = trim(one.fullContent)

\* C2 (as claimed): encoder-mode equivalence.  For every body from which
\* the non-streaming decode produces a result, the text of the message
\* stored by a sendStream pass over that body is the content parseResponse
\* returns for it, also when the last line has no newline.
C2_ModeEquivalence ==
    \A r \in Requests :
        (StreamSucceeded(r) /\ ~parseResponse(Utf8Decode(net[r].body)).threw) =>
            LastMessage(r).content = parseResponse(Utf8Decode(net[r].body)).content

\* C3 (as claimed): a sendStream pass that has ended has yielded exactly one
\* TextDelta for each line of the body with type code "0" and a JSON string
\* payload, carrying that string, in the order of the lines.
C3_OneDeltaPerTextLine ==
    \A r \in Requests :
        StreamSucceeded(r) =>
            DeltaTexts(gen[r].yielded) = TextsOfLines(LinesOfBody(net[r].body))

\* C4: a completion event is only ever the last event yielded; a pass whose
\* byte source ended without error has yielded exactly one; a pass that is
\* still reading, and a pass that failed, has yielded none.
C4_OneCompletionLast ==
    \A r \in Requests :
        /\ Completions(gen[r].yielded) \subseteq {Len(gen[r].yielded)}
        /\ StreamSucceeded(r) => Completions(gen[r].yielded) = {Len(gen[r].yielded)}
        /\ (pc[r] = "streaming" \/ StreamFailed(r)) => Completions(gen[r].yielded) = {}

\* C4 witness: a pass has ended without error after yielding a TextDelta;
\* its body had a completion signal before a text line.
C4_Witness ==
    /\ StreamSucceeded(1)
    /\ Len(gen[1].yielded) >= 2
    /\ gen[1].isComplete

\* C5 (as claimed): end-of-data flush.  When the byte source ends and the
\* text after the last newline is a text line, its TextDelta is the event
\* yielded just before the completion event.
C5_FlushAtEnd ==
    \A r \in Requests :
        (StreamSucceeded(r) /\ IsTextLine(LastLineOfBody(net[r].body))) =>
            LET ev == gen[r].yielded
            IN  /\ Len(ev) >= 2
                /\ ev[Len(ev) - 1] = TextDelta(TextOfLine(LastLineOfBody(net[r].body)))

\* A write of a completion chunk whose delta has exactly the fields ks.
IsChunkWrite(w, ks, finish_reason) ==
    /\ w.op = "write"
    /\ w.data.object = "chat.completion.chunk"
    /\ DOMAIN w.data.delta = ks
    /\ w.data.finish_reason = finish_reason

\* C6: the writes of a successful streaming response are, in this order:
\* one frame with only the role "assistant", content frames with
\* finish_reason null, one frame with an empty delta and finish_reason
\* "stop", the sentinel, the end; and at no time is the sentinel followed by
\* anything but the end.
C6_FrameOrder ==
    \A r \in Requests :
        LET w == res[r]
            n == Len(w)
        IN  /\ StreamSucceeded(r) =>
                /\ n >= 4
                /\ IsChunkWrite(w[1], {"role"}, "null")
                /\ w[1].data.delta.role = "assistant"
                /\ \A i \in 2..(n - 3) : IsChunkWrite(w[i], {"content"}, "null")
                /\ IsChunkWrite(w[n - 2], {}, "stop")
                /\ w[n - 1] = WriteDone
                /\ w[n] = End
            /\ \A i \in 1..n : w[i] = WriteDone => (i = n - 1 /\ w[n] = End)

\* C6 witness: a successful streaming response with two content frames.
C6_Witness ==
    /\ StreamSucceeded(1)
    /\ Len(res[1]) = 6

\* The contents of the content frames written, in order.
FrameContents(w) ==
    LET fs == SelectSeq(w, LAMBDA x : x.op = "write"
                                       /\ x.data.object = "chat.completion.chunk"
                                       /\ DOMAIN x.data.delta = {"content"})
    IN  [i \in 1..Len(fs) |-> fs[i].data.delta.content]

\* C7 (as claimed): one content frame per TextDelta event, the i-th frame
\* carrying the text of the i-th TextDelta, the empty text included.
C7_FramePerDelta ==
    \A r \in Requests :
        req[r].stream => FrameContents(res[r]) = DeltaTexts(gen[r].yielded)

\* C7 (amended): one content frame per TextDelta event whose text is not
\* empty, in the order of the events and carrying their texts; a TextDelta
\* with the empty text has no frame.
C7_FramePerNonEmptyDelta ==
    \A r \in Requests :
        req[r].stream =>
            FrameContents(res[r]) =
                SelectSeq(DeltaTexts(gen[r].yielded), LAMBDA t : t # <<>>)

\* C7 witness: a TextDelta with the empty text and one with a text of one
\* space have been yielded, and the pass has ended.
C7_Witness ==
    /\ StreamSucceeded(1)
    /\ DeltaTexts(gen[1].yielded) = << <<>>, <<" ">> >>

\* C8: when the chat call of a streaming request has failed, before the
\* first byte or in the middle of the body, the response ends with exactly
\* one error frame, then the sentinel, then the end.
C8_ErrorFrameThenDone ==
    \A r \in Requests :
        StreamFailed(r) =>
            LET w == res[r]
                n == Len(w)
            IN  /\ n >= 4
                /\ w[n - 2].op = "write" /\ w[n - 2].data.object = "error"
                /\ w[n - 1] = WriteDone
                /\ w[n] = End
                /\ \A i \in 1..(n - 3) : w[i] # End /\ w[i] # WriteDone
                                         /\ w[i].data.object # "error"

\* C8 witness: the transport failed after a content frame was written.
C8_Witness ==
    /\ StreamFailed(1)
    /\ Len(res[1]) >= 5
    /\ net[1].rest # <<>>

\* Request r is between the construction of its payload and the append of
\* its reply.
InFlight(r) == pc[r] \in {"posting", "streaming"}

\* C9 (as claimed): at most one send or sendStream is in flight on a
\* Conversation Session at any time.
C9_OneInFlightPerSession ==
    \A r1, r2 \in Requests :
        (r1 # r2 /\ InFlight(r1) /\ InFlight(r2)) =>
            loc[r1].client # loc[r2].client

\* getOrCreateClient has returned a client to the handler of request r.
Obtained(r) ==
    pc[r] \in {"gotClient", "posting", "streaming", "done"} \/ ChatStarted(r)

\* C10 (as claimed): the requests that use the same registry key obtain the
\* same client from getOrCreateClient.
C10_OneClientPerKey ==
    \A r1, r2 \in Requests :
        (Obtained(r1) /\ Obtained(r2) /\ loc[r1].apiKey = loc[r2].apiKey) =>
            loc[r1].client = loc[r2].client

\* ------------------------------------------------------------------------
\* C11..C20
\* ------------------------------------------------------------------------

\* The registry key of request r.
RequestKey(r) ==
    IF req[r].authorization.scheme = "Bearer"
    THEN req[r].authorization.key ELSE DefaultKey

\* The text of a key before and after its first colon.
BeforeColon(key) == SubSeq(key, 1, indexOf(key, ":"))
AfterColon(key) == SubSeq(key, indexOf(key, ":") + 2, Len(key))

\* The authorization header carries a Bearer key that encodes two
\* credentials: a text, a colon, a text.
EncodesCredentials(a) ==
    /\ a.scheme = "Bearer"
    /\ indexOf(a.key, ":") # -1
    /\ BeforeColon(a.key) # <<>>
    /\ AfterColon(a.key) # <<>>

\* The calls of client.init() made for request r.
ProbesBy(r) == {i \in 1..Len(calls) : calls[i].kind = "init" /\ calls[i].by = r}

\* C11: a call of getOrCreateClient with a key that is cached returns the
\* cached client to the handler and neither constructs a client nor probes
\* the backend; and no step removes a key from the registry.
C11_CachedClientReused ==
    [][ /\ \A r \in Requests :
            (pc[r] = "idle" /\ pc'[r] # "idle"
             /\ loc'[r].apiKey \in DOMAIN clients) =>
                /\ pc'[r] = "gotClient"
                /\ loc'[r].client = clients[loc'[r].apiKey]
                /\ heap' = heap
                /\ calls' = calls
        /\ DOMAIN clients \subseteq DOMAIN clients' ]_vars

\* C11 witness: the first request has been answered and the second one,
\* with the same key, holds the client the first one cached; one client was
\* constructed.
C11_Witness ==
    /\ pc[1] = "done"
    /\ pc[2] = "gotClient"
    /\ loc[2].apiKey = loc[1].apiKey
    /\ loc[2].client = loc[1].client
    /\ Len(heap) = 1

\* C12 (as claimed): when the probe of a new client fails for a request,
\* the registry has no entry for the key of that request afterwards.
C12_FailedProbeNotCached ==
    [][ \A r \in Requests :
            (pc[r] = "probing" /\ pc'[r] = "failed") =>
                loc[r].apiKey \notin DOMAIN clients' ]_vars

\* C13: without process-wide credentials, a request without a Bearer key
\* that encodes two credentials has failed as soon as it has arrived: no
\* probe and no chat call was made for it, it holds no client and the
\* registry has no entry for its key.
C13_NoCallWithoutCredentials ==
    \A r \in Requests :
        (pc[r] # "idle" /\ ~EnvSet(env)
         /\ ~EncodesCredentials(req[r].authorization)) =>
            /\ pc[r] = "failed"
            /\ \A i \in 1..Len(calls) : calls[i].by # r
            /\ loc[r].client = 0
            /\ RequestKey(r) \notin DOMAIN clients

\* C13 witness: a request with the Bearer key "k" has failed while the
\* other request, with usable credentials, has been answered.
C13_Witness ==
    /\ env = EnvUnset
    /\ pc[1] = "failed"
    /\ req[1].authorization = Bearer(KeyK)
    /\ pc[2] = "done"

\* C14 (as claimed): a request that fails for missing credentials is
\* answered with status 401, with or without an Authorization header; every
\* other failure is answered with a 5xx status.
C14_MissingCredentialsIs401 ==
    \A r \in Requests :
        (pc[r] = "failed" /\ res[r][1].op = "json") =>
            IF ~EnvSet(env) /\ ~EncodesCredentials(req[r].authorization)
            THEN res[r][1].status = 401
            ELSE res[r][1].status \in 500..599

\* C15 (as claimed): the credentials taken from a key are the text before
\* its first colon and all of the text after its first colon.
C15_SplitOnFirstColon ==
    \A i \in 1..Len(calls) :
        (calls[i].kind = "init" /\ ~EnvSet(env)) =>
            LET key == loc[calls[i].by].apiKey
                client == heap[calls[i].client]
            IN  /\ client.cookies = BeforeColon(key)
                /\ client.convexSessionId = AfterColon(key)

\* C16: with both process-wide credentials set, every client constructed
\* carries them, whatever the key, and no request is refused for its
\* missing header; otherwise the credentials of a client come from the key.
C16_EnvironmentFirst ==
    /\ \A i \in 1..Len(calls) :
        calls[i].kind = "init" =>
            LET key == loc[calls[i].by].apiKey
                client == heap[calls[i].client]
            IN  IF EnvSet(env)
                THEN /\ client.cookies = env.COOKIES
                     /\ client.convexSessionId = env.CONVEX_SESSION_ID
                ELSE /\ EncodesCredentials(Bearer(key))
                     /\ client.cookies = BeforeColon(key)
                     /\ client.convexSessionId # <<>>
                     /\ client.convexSessionId =
                            SubSeq(AfterColon(key), 1, Len(client.convexSessionId))
    /\ \A r \in Requests :
        (EnvSet(env) /\ pc[r] # "idle") =>
            /\ pc[r] = "failed" =>
                    ~(res[r][1].op = "json" /\ res[r][1].status = 401)
            /\ loc[r].client # 0

\* C16 witness: both process-wide credentials are set, a request whose key
\* encodes other credentials has been answered, and its client carries the
\* process-wide ones.
C16_Witness ==
    /\ env = EnvBoth
    /\ req[1].authorization = Bearer(KeyCS)
    /\ pc[1] = "done"
    /\ ProbesBy(1) # {}
    /\ heap[loc[1].client].cookies = <<"e">>

\* The positions in log at which Client c started a send: a call of send,
\* or the first next() of a sendStream generator.
Sends(c) ==
    {i \in 1..Len(log) : log[i].op \in {"send", "next"} /\ log[i].client = c}

\* The positions in log of the newConversation() calls on Client c.
Resets(c) ==
    {i \in 1..Len(log) : log[i].op = "newConversation" /\ log[i].client = c}

\* The thread id in the payload of the send at position i of log.
PayloadThreadId(i) == calls[log[i].call].threadId

\* Sequence a is a prefix of sequence b.
IsPrefix(a, b) == Len(a) <= Len(b) /\ SubSeq(b, 1, Len(a)) = a

\* The step calls the method op on Client c.
StepCalls(op, c) ==
    \E i \in (Len(log) + 1)..Len(log') : log'[i].op = op /\ log'[i].client = c

\* C17: two sends of a session carry the same thread id in their payloads
\* when no newConversation() was called between them, and different ones
\* when one was: the first send after a reset does not reuse an earlier id.
C17_ThreadIdStable ==
    \A c \in 1..Len(heap) : \A i, j \in Sends(c) :
        i < j =>
            IF \E k \in Resets(c) : i < k /\ k < j
            THEN PayloadThreadId(i) # PayloadThreadId(j)
            ELSE PayloadThreadId(i) = PayloadThreadId(j)

\* C17 witness: two sends without a reset between them, then a reset and a
\* third send.
C17_Witness ==
    \E i, j, k \in Sends(1) :
        /\ i < j /\ j < k
        /\ \A n \in Resets(1) : ~(i < n /\ n < j)
        /\ \E n \in Resets(1) : j < n /\ n < k

\* C18: the thread id of a session is set exactly when a send or a
\* sendStream has started on it after its construction or, if it was reset,
\* after the last newConversation().
C18_ThreadIdSetIffSendStarted ==
    \A c \in 1..Len(heap) :
        getThreadId(heap[c]) # 0 <=>
            \E i \in Sends(c) : \A k \in Resets(c) : k < i

\* C18 witness: a send was started and has failed, clearMessages() and,
\* after the send, newConversation() were called, and the session holds no
\* thread id.
C18_Witness ==
    /\ \E t \in Requests : pc[t] = "failed"
    /\ Sends(1) # {}
    /\ \E i \in 1..Len(log) : log[i].op = "clearMessages"
    /\ getThreadId(heap[1]) = 0

\* C19 (as claimed): a step that does not call newConversation() on a
\* session leaves the session's messages a prefix of what they are after
\* the step, whatever it calls.
C19_AppendOnly ==
    [][ \A c \in 1..Len(heap) :
            ~StepCalls("newConversation", c) =>
                IsPrefix(getMessages(heap[c]), getMessages(heap'[c])) ]_vars

\* C19 (amended): a step that calls neither newConversation() nor
\* clearMessages() on a session leaves the session's messages a prefix of
\* what they are after the step.
C19_AppendOnlyUnlessCleared ==
    [][ \A c \in 1..Len(heap) :
            (~StepCalls("newConversation", c) /\ ~StepCalls("clearMessages", c)) =>
                IsPrefix(getMessages(heap[c]), getMessages(heap'[c])) ]_vars

\* C19 witness: without a reset and without clearMessages(), the session
\* holds a message the program appended, the reply of a send after it and
\* another message after the reply.
C19_Witness ==
    /\ \A i \in 1..Len(log) :
          log[i].op \notin {"newConversation", "clearMessages"}
    /\ Len(getMessages(heap[1])) = 3
    /\ getMessages(heap[1])[2].content = <<"a">>
    /\ getMessages(heap[1])[3].content = <<"h", "i">>

\* The log entries of Client c after its last newConversation().
SinceReset(c) ==
    LET last == CHOOSE k \in Resets(c) : \A n \in Resets(c) : n <= k
    IN  SelectSeq(SubSeq(log, last + 1, Len(log)), LAMBDA e : e.client = c)

\* C20: when newConversation() was called on a session and only
\* appendMessage calls followed, getMessages() returns the messages of those
\* calls, all of them and in the order of the calls.
C20_RoundTrip ==
    \A c \in 1..Len(heap) :
        (Resets(c) # {}
         /\ \A i \in 1..Len(SinceReset(c)) :
                SinceReset(c)[i].op = "appendMessage") =>
            getMessages(heap[c]) =
                [i \in 1..Len(SinceReset(c)) |-> SinceReset(c)[i].message]

\* C20 witness: a conversation with a message was reset and two messages
\* of the same role were appended.
C20_Witness ==
    /\ Len(log) = 4
    /\ log[1].op = "appendMessage"
    /\ log[2].op = "newConversation"
    /\ log[3].op = "appendMessage"
    /\ log[4].op = "appendMessage"
    /\ log[3].message.role = log[4].message.role
    /\ Len(getMessages(heap[1])) = 2

\* ------------------------------------------------------------------------
\* C21..C30
\* ------------------------------------------------------------------------

\* The step issues a chat call.
StepPosts == Len(calls') = Len(calls) + 1 /\ calls'[Len(calls')].kind = "chat"

\* The messages the step appends to Client c, in order.
StepAppends(c) ==
    LET new == SelectSeq(SubSeq(log', Len(log) + 1, Len(log')),
                         LAMBDA e : e.op = "appendMessage" /\ e.client = c)
    IN  [i \in 1..Len(new) |-> new[i].message]

\* C21: a step of send or sendStream that posts the payload has appended
\* the new message, if one was given, to the session before, and the
\* payload lists the messages the session holds then, all of them and in
\* their order, each with its id, its role and its content.
C21_PayloadIsSession ==
    [][ StepPosts =>
            LET call == calls'[Len(calls')]
                session == getMessages(heap'[call.client])
            IN  /\ Len(call.messages) = Len(session)
                /\ \A i \in 1..Len(session) :
                      /\ call.messages[i].id = session[i].id
                      /\ call.messages[i].role = session[i].role
                      /\ call.messages[i].text = session[i].content
                /\ StepCalls("newConversation", call.client)
                   \/ session = getMessages(heap[call.client])
                                  \o StepAppends(call.client) ]_vars

\* C21 witness: a sendStream called with a new message on a session that
\* holds a message has started; its payload ends with the new message.
C21_Witness ==
    \E t \in Requests :
        /\ pc[t] = "posting"
        /\ req[t].stream
        /\ req[t].messages # <<>>
        /\ \E i \in 1..Len(calls) :
              /\ calls[i].by = t
              /\ calls[i].kind = "chat"
              /\ Len(calls[i].messages) >= 2
              /\ calls[i].messages[Len(calls[i].messages)].id
                     = req[t].messages[1].id

\* The URL of an image-gen element: its content as a JSON string, or its
\* raw content when that is no JSON text.
UrlOfItem(item) ==
    IF JSONParse(item.content).kind = "string"
    THEN JSONParse(item.content).value ELSE item.content

\* The image results of one line: the URLs of the image-gen elements with a
\* content of a type-"2" line whose payload is an array, in order.
UrlsOfLine(line) ==
    LET p == JSONParse(SubSeq(line, 3, Len(line)))
    IN  IF indexOf(line, ":") = 1 /\ line[1] = "2" /\ p.kind = "array"
        THEN LET images == SelectSeq(p.value,
                     LAMBDA item : item.type = "image-gen" /\ item.content # <<>>)
             IN  [i \in 1..Len(images) |-> UrlOfItem(images[i])]
        ELSE <<>>

RECURSIVE UrlsOfLines(_)
\* The image results of the lines, in order.
UrlsOfLines(lines) ==
    IF lines = <<>> THEN <<>>
    ELSE UrlsOfLine(Head(lines)) \o UrlsOfLines(Tail(lines))

\* Request r is answered in this step by a send that succeeded.
SendSucceeds(r) == ~req[r].stream /\ pc[r] = "posting" /\ pc'[r] = "done"

\* C22: a send that succeeds appends one message to the end of the
\* session, an assistant message, and returns that message (the handler
\* answers with its content); when the body has image results the message
\* is an image message with the URL of the last one, otherwise it is a text
\* message.
C22_SendAppendsReply ==
    [][ \A r \in Requests :
            SendSucceeds(r) =>
                LET c == loc[r].client
                    new == getMessages(heap'[c])
                    reply == new[Len(new)]
                    urls == UrlsOfLines(LinesOfBody(net'[r].body))
                IN  /\ new = Append(getMessages(heap[c]), reply)
                    /\ reply.role = ASSISTANT
                    /\ res'[r] = <<JsonCompletion(req[r].model, reply.content,
                                       usage(req[r].messages, reply.content))>>
                    /\ IF urls # <<>>
                       THEN /\ reply.contentType = "image"
                            /\ reply.content = urls[Len(urls)]
                       ELSE reply.contentType = "text" ]_vars

\* C22 witness: a send has succeeded on a body with several image results;
\* the reply is an image message with the URL "v" of the last one.
C22_Witness ==
    /\ pc[1] = "done"
    /\ ~req[1].stream
    /\ Len(UrlsOfLines(LinesOfBody(net[1].body))) >= 2
    /\ LastMessage(1).contentType = "image"
    /\ LastMessage(1).content = <<"v">>

RECURSIVE Concat(_)
\* The concatenation of the texts, in order.
Concat(texts) ==
    IF texts = <<>> THEN <<>> ELSE Head(texts) \o Concat(Tail(texts))

\* The sendStream pass of request r yields its completion event in this
\* step.
StreamCompletes(r) == req[r].stream /\ pc[r] = "streaming" /\ pc'[r] = "done"

\* C23 (as claimed): in the step in which sendStream yields its completion
\* event, one message is appended to the session, an assistant message
\* carried by the event, whose content is the concatenation of the texts of
\* the TextDelta events of the pass.
C23_StreamAppendsConcatenation ==
    [][ \A r \in Requests :
            StreamCompletes(r) =>
                LET c == loc[r].client
                    new == getMessages(heap'[c])
                    reply == new[Len(new)]
                    events == gen'[r].yielded
                IN  /\ new = Append(getMessages(heap[c]), reply)
                    /\ reply.role = ASSISTANT
                    /\ reply.contentType = "text"
                    /\ events[Len(events)].fullMessage = reply
                    /\ reply.content =
                         Concat(DeltaTexts(SubSeq(events, 1, Len(events) - 1)))
      ]_vars

\* C23 (amended): as C23, the content being the concatenation of the texts
\* of the TextDelta events without its leading and trailing white space.
C23_StreamAppendsTrimmedConcatenation ==
    [][ \A r \in Requests :
            StreamCompletes(r) =>
                LET c == loc[r].client
                    new == getMessages(heap'[c])
                    reply == new[Len(new)]
                    events == gen'[r].yielded
                IN  /\ new = Append(getMessages(heap[c]), reply)
                    /\ reply.role = ASSISTANT
                    /\ reply.contentType = "text"
                    /\ events[Len(events)].fullMessage = reply
                    /\ reply.content =
                         trim(Concat(DeltaTexts(SubSeq(events, 1, Len(events) - 1))))
      ]_vars

\* C23 witness: a pass has ended after the TextDelta events "a" and " ";
\* the message appended has the content "a".
C23_Witness ==
    /\ StreamSucceeded(1)
    /\ DeltaTexts(SubSeq(gen[1].yielded, 1, Len(gen[1].yielded) - 1))
           = << <<"a">>, <<" ">> >>
    /\ LastMessage(1).content = <<"a">>

\* Request r was answered by a send that succeeded.
SendSucceeded(r) == ~req[r].stream /\ pc[r] = "done"

\* The concatenation of the JSON strings of the text lines of a body.
TextOfBody(body) == Concat(TextsOfLines(LinesOfBody(body)))

\* C24 (as claimed): the text the non-streaming decode returns for the body
\* of a send that succeeded is the concatenation, in order, of the JSON
\* strings of the type-"0" lines of the body; it is the content of the
\* reply when the body has no image result.
C24_TextIsConcatenation ==
    \A r \in Requests :
        SendSucceeded(r) =>
            /\ parseResponse(Utf8Decode(net[r].body)).content
                   = TextOfBody(net[r].body)
            /\ UrlsOfLines(LinesOfBody(net[r].body)) = <<>> =>
                   LastMessage(r).content = TextOfBody(net[r].body)

\* C24 (amended): as C24, the text being the concatenation without its
\* leading and trailing white space.
C24_TextIsTrimmedConcatenation ==
    \A r \in Requests :
        SendSucceeded(r) =>
            /\ parseResponse(Utf8Decode(net[r].body)).content
                   = trim(TextOfBody(net[r].body))
            /\ UrlsOfLines(LinesOfBody(net[r].body)) = <<>> =>
                   LastMessage(r).content = trim(TextOfBody(net[r].body))

\* C24 witness: a send has succeeded on a body with the texts " " and "a";
\* the reply has the content "a".
C24_Witness ==
    /\ SendSucceeded(1)
    /\ TextsOfLines(LinesOfBody(net[1].body)) = << <<" ">>, <<"a">> >>
    /\ LastMessage(1).content = <<"a">>

\* The send of request r gets its response, or fails, in this step.
SendReturns(r) == ~req[r].stream /\ pc[r] = "posting" /\ pc'[r] # "posting"

\* C25: when the body of the response to a send has no text and no image
\* result, the send appends and returns no message: it fails with the
\* error 'No valid content found in response'.
C25_NoContentFails ==
    [][ \A r \in Requests :
            (SendReturns(r) /\ net'[r].status = 200
             /\ TextOfBody(net'[r].body) = <<>>
             /\ UrlsOfLines(LinesOfBody(net'[r].body)) = <<>>) =>
                /\ pc'[r] = "failed"
                /\ heap' = heap
                /\ res'[r] = <<InternalError(
                      "Request failed: No valid content found in response")>>
      ]_vars

\* C25 witness: a send has failed on a body whose only text line has the
\* empty text.
C25_Witness ==
    /\ ~req[1].stream
    /\ pc[1] = "failed"
    /\ net[1].status = 200
    /\ TextsOfLines(LinesOfBody(net[1].body)) = << <<>> >>

\* Lines the decoders skip: no colon, an unknown type code, a type-"0"
\* payload and a type-"2" payload that are not JSON.
MalformedLines == { <<"g">>,
                    <<"9", ":", "\"", "a", "\"">>,
                    <<"0", ":", "a">>,
                    <<"2", ":", "[">> }

RECURSIVE Join(_)
\* The lines joined by newlines.
Join(lines) ==
    IF Len(lines) = 1 THEN lines[1]
    ELSE lines[1] \o <<"\n">> \o Join(Tail(lines))

\* The body with the line inserted after its k-th line.
InsertLine(body, k, line) ==
    LET lines == split(body, "\n")
    IN  Join(SubSeq(lines, 1, k) \o <<line>> \o SubSeq(lines, k + 1, Len(lines)))

\* C26 (as claimed): for every body received, inserting a malformed line
\* anywhere changes neither what the non-streaming decode returns or
\* throws, nor the events and the text of the streaming decode.
C26_MalformedLineIgnored ==
    \A r \in Requests :
        net[r].status = 200 =>
            \A line \in MalformedLines :
                \A k \in 0..Len(split(net[r].body, "\n")) :
                    LET with == InsertLine(net[r].body, k, line)
                    IN  /\ parseResponse(Utf8Decode(with))
                             = parseResponse(Utf8Decode(net[r].body))
                        /\ streamChunks(GenInit, <<with>>).yielded
                             = streamChunks(GenInit, <<net[r].body>>).yielded
                        /\ streamChunks(GenInit, <<with>>).fullContent
                             = streamChunks(GenInit, <<net[r].body>>).fullContent

\* The backend answered the chat call of request r with a status that is
\* not 2xx.
StatusFailure(r) ==
    pc[r] = "failed" /\ net[r].status # 0 /\ net[r].status \notin 200..299

\* The message of an error of send or sendStream that carries the status.
CarriesStatus(message, status) ==
    \E text \in {"Request failed with status code " \o ToString(status),
                 "Failed to send message: " \o ToString(status)} :
        message \in {"Request failed: " \o text,
                     "Streaming request failed: " \o text}

\* C27: when the backend answers the chat call with a status that is not
\* 2xx, send fails with an error whose message carries the status and
\* appends nothing; sendStream fails with such an error at the first pull:
\* it has yielded no event, and the handler has written the error after the
\* role frame.
C27_StatusFailure ==
    \A r \in Requests :
        StatusFailure(r) =>
            /\ Len(getMessages(heap[loc[r].client])) = Len(req[r].messages)
            /\ IF req[r].stream
               THEN /\ gen[r].yielded = <<>>
                    /\ Len(res[r]) = 4
                    /\ res[r][2].data.object = "error"
                    /\ CarriesStatus(res[r][2].data.error, net[r].status)
               ELSE /\ Len(res[r]) = 1
                    /\ res[r][1].op = "json"
                    /\ res[r][1].status = 500
                    /\ CarriesStatus(res[r][1].data.error.message, net[r].status)

\* C27 witness: the backend has answered 404 to the chat call of a
\* streaming request.
C27_Witness ==
    /\ StatusFailure(1)
    /\ req[1].stream
    /\ net[1].status = 404

\* The URLs of the ImageResult events among the events, in order.
ImageUrlsOf(events) ==
    LET images == SelectSeq(events, LAMBDA e : "imageUrl" \in DOMAIN e)
    IN  [i \in 1..Len(images) |-> images[i].imageUrl]

\* C28 (as claimed): a sendStream pass that has ended has yielded one
\* ImageResult event for each image result of the body, the image-gen
\* elements with a content of its type-"2" lines, carrying the URL the
\* non-streaming decode takes for it.
C28_StreamYieldsImages ==
    \A r \in Requests :
        StreamSucceeded(r) =>
            ImageUrlsOf(gen[r].yielded) = UrlsOfLines(LinesOfBody(net[r].body))

\* The lines of the body of request r that the transport has delivered up
\* to their newline.
LinesDelivered(r) ==
    LET delivered == SubSeq(net[r].body, 1, Len(net[r].body) - Len(net[r].rest))
        lines == split(delivered, "\n")
    IN  SubSeq(lines, 1, Len(lines) - 1)

\* A line is a type-"2" line with a completion signal among its elements.
IsSignalLine(line) ==
    LET p == JSONParse(SubSeq(line, 3, Len(line)))
    IN  /\ indexOf(line, ":") = 1
        /\ line[1] = "2"
        /\ p.kind = "array"
        /\ \E i \in 1..Len(p.value) : p.value[i].type \in {"completion", "done"}

\* C29: a completion signal yields no event and does not end the pass.
\* While the transport has not ended no completion event is yielded,
\* whatever signals were read; the events yielded are one TextDelta for
\* each text line delivered, before or after a signal, and then, when the
\* transport has ended, the completion event.
C29_SignalDoesNotEndStream ==
    \A r \in Requests :
        (req[r].stream /\ pc[r] \in {"streaming", "done"}) =>
            LET texts == SelectSeq(LinesDelivered(r), IsTextLine)
                events == gen[r].yielded
            IN  /\ pc[r] = "streaming" =>
                      /\ Len(events) = Len(texts)
                      /\ \A i \in 1..Len(events) : ~events[i].complete
                /\ pc[r] = "done" =>
                      /\ Len(events) = Len(texts) + 1
                      /\ \A i \in 1..Len(texts) : ~events[i].complete
                      /\ events[Len(events)].complete
                /\ gen[r].isComplete <=>
                      \E i \in 1..Len(LinesDelivered(r)) :
                          IsSignalLine(LinesDelivered(r)[i])

\* C29 witness: the transport has delivered a completion signal and then a
\* text line and has not ended; the TextDelta of the text line is the only
\* event yielded.
C29_Witness ==
    /\ pc[1] = "streaming"
    /\ gen[1].isComplete
    /\ IsSignalLine(LinesDelivered(1)[1])
    /\ gen[1].yielded = <<TextDelta(<<"a">>)>>

\* C30 (as claimed): once the caller of a streaming request has closed the
\* connection, the handler pulls no further event from sendStream and the
\* generator reads no further chunk of the backend response.
C30_DisconnectStopsDecoding ==
    [][ \A r \in Requests :
            r \in closed => (gen'[r] = gen[r] /\ net'[r] = net[r]) ]_vars


\* ------------------------------------------------------------------------
\* C31: the usage of the non-streaming response.
\* ------------------------------------------------------------------------

\* The integer n as a number of the response.
Whole(n) == [whole |-> n, quarters |-> 0]

\* The ceiling of x / 4.
CeilingOfQuarter(x) == (x + 3) \div 4

\* The usage object of the answer of request r.
UsageOf(r) == res[r][1].data.usage

\* C31: in a non-streaming response prompt_tokens is the ceiling of the
\* total number of characters of the input contents divided by 4,
\* completion_tokens the ceiling of the length of the output divided by 4,
\* both integers, and total_tokens is their sum.
C31_UsageIsCeiling ==
    \A r \in Requests :
        SendSucceeded(r) =>
            LET p == CeilingOfQuarter(contentLength(req[r].messages))
                o == CeilingOfQuarter(Len(res[r][1].data.content))
            IN  /\ UsageOf(r).prompt_tokens = Whole(p)
                /\ UsageOf(r).completion_tokens = Whole(o)
                /\ UsageOf(r).total_tokens = Whole(p + o)

\* ------------------------------------------------------------------------
\* C32: one session per registry key.
\* ------------------------------------------------------------------------

\* Request r takes this step.
Acts(r) == pc'[r] # pc[r] \/ net'[r] # net[r]

\* C32: each registry key has its own session: a step of a request made
\* with one key changes neither the message list nor the thread id of the
\* session cached under a different key.
C32_SessionPerKey ==
    [][ \A r \in Requests : \A k \in DOMAIN clients :
            (Acts(r) /\ RequestKey(r)' # k) =>
                /\ getMessages(heap'[clients[k]]) = getMessages(heap[clients[k]])
                /\ getThreadId(heap'[clients[k]]) = getThreadId(heap[clients[k]])
      ]_vars

\* C32 witness: two requests made with different keys have both been
\* answered, each from the session cached under its own key, and each
\* session holds the conversation of its request.
C32_Witness ==
    /\ pc[1] = "done" /\ pc[2] = "done"
    /\ RequestKey(1) # RequestKey(2)
    /\ {RequestKey(1), RequestKey(2)} \subseteq DOMAIN clients
    /\ clients[RequestKey(1)] = loc[1].client
    /\ clients[RequestKey(2)] = loc[2].client
    /\ loc[1].client # loc[2].client
    /\ getThreadId(heap[loc[1].client]) # getThreadId(heap[loc[2].client])

\* ------------------------------------------------------------------------
\* C33: the inbound conversion of the roles.
\* ------------------------------------------------------------------------

\* The payload send or sendStream has posted for request r.
PayloadOf(r) ==
    calls[CHOOSE i \in 1..Len(calls) : calls[i].kind = "chat" /\ calls[i].by = r]

\* C33: the messages of the backend payload, streaming or not, are as many
\* as the messages of the request and in their order, with the same
\* contents; a system message and a user message have the role user, at
\* their position, and a message of any other role has the role assistant.
C33_RolesConverted ==
    \A r \in Requests :
        ChatStarted(r) =>
            LET sent == PayloadOf(r).messages
                given == req[r].messages
            IN  /\ Len(sent) = Len(given)
                /\ \A i \in 1..Len(given) :
                      /\ sent[i].text = given[i].content
                      /\ sent[i].role \in {"user", "assistant"}
                      /\ given[i].role \in {"system", "user"}
                            => sent[i].role = "user"
                      /\ given[i].role \notin {"system", "user"}
                            => sent[i].role = "assistant"

\* C33 witness: a streaming request with a leading system message and a
\* tool message has posted its payload, whose first message has the role
\* user and the content of the system message.
C33_Witness ==
    /\ ChatStarted(1)
    /\ req[1].stream
    /\ req[1].messages[1].role = "system"
    /\ Len(req[1].messages) = 2
    /\ req[1].messages[2].role = "tool"
    /\ PayloadOf(1).messages[1].role = "user"
    /\ PayloadOf(1).messages[1].text = req[1].messages[1].content

\* ------------------------------------------------------------------------
\* C34: the payload of a request on a shared client.
\* ------------------------------------------------------------------------

\* The positions in calls of the chat calls.
ChatCalls == {i \in 1..Len(calls) : calls[i].kind = "chat"}

\* The ids of the messages of the payload at position i of calls.
PayloadIds(i) == {calls[i].messages[j].id : j \in 1..Len(calls[i].messages)}

\* C34: whatever the interleaving of the requests, those that share one
\* cached client included, the messages of the payload of a request are
\* that request's own converted messages, in order, and none of them is a
\* message of the payload of another request.
C34_PayloadIsOwnMessages ==
    \A i \in ChatCalls :
        LET sent == calls[i].messages
            given == req[calls[i].by].messages
        IN  /\ Len(sent) = Len(given)
            /\ \A j \in 1..Len(given) :
                  /\ sent[j].text = given[j].content
                  /\ sent[j].role = convertRole(given[j].role)
            /\ \A k \in ChatCalls \ {i} : PayloadIds(i) \cap PayloadIds(k) = {}

\* C34 witness: two requests with different messages share one client and
\* the second has posted its payload while the first was in flight.
C34_Witness ==
    /\ pc[1] = "posting" /\ pc[2] = "posting"
    /\ loc[1].client = loc[2].client
    /\ req[1].messages # req[2].messages
    /\ Len(PayloadOf(1).messages) = 1
    /\ Len(PayloadOf(2).messages) = 2

\* ------------------------------------------------------------------------
\* C35: the conversation a reply is appended to.
\* ------------------------------------------------------------------------

\* The send or sendStream of request r appends its reply in this step.
AppendsReply(r) == InFlight(r) /\ pc'[r] = "done"

\* C35: the reply of send and sendStream is appended to the conversation
\* whose history the call has sent in its payload: when the reply is
\* appended the session holds the messages of that payload and no others,
\* and after it those messages followed by the reply.
C35_ReplyJoinsOwnConversation ==
    [][ \A r \in Requests :
            AppendsReply(r) =>
                LET c == loc[r].client
                    new == getMessages(heap'[c])
                IN  /\ messagesJson(getMessages(heap[c])) = PayloadOf(r).messages
                    /\ new = Append(getMessages(heap[c]), new[Len(new)])
      ]_vars

\* ------------------------------------------------------------------------
\* C36: the text of the content frames.
\* ------------------------------------------------------------------------

\* C36: in a successful streaming response the concatenation of the
\* contents of the content frames written, in order, is the concatenation
\* of the texts of the TextDelta events yielded, which is the untrimmed
\* text the stored assistant message is built from.
C36_FramesCarryFullText ==
    \A r \in Requests :
        StreamSucceeded(r) =>
            /\ Concat(FrameContents(res[r])) = Concat(DeltaTexts(gen[r].yielded))
            /\ Concat(FrameContents(res[r])) = gen[r].fullContent
            /\ LastMessage(r).role = ASSISTANT
            /\ LastMessage(r).content = trim(Concat(FrameContents(res[r])))

\* C36 witness: a streaming response has succeeded with two TextDelta
\* events, the first with the empty text, and one content frame.
C36_Witness ==
    /\ StreamSucceeded(1)
    /\ DeltaTexts(gen[1].yielded) = << <<>>, <<"a">> >>
    /\ FrameContents(res[1]) = << <<"a">> >>

\* ------------------------------------------------------------------------
\* C37: what a failed send or sendStream leaves in the session.
\* ------------------------------------------------------------------------

\* The position in calls of the last chat call of slot t.
LastCallOf(t) ==
    CHOOSE i \in ChatCalls :
        calls[i].by = t /\ \A k \in ChatCalls : calls[k].by = t => k <= i

\* The position in log of the send, or first next(), that made the call at
\* position i of calls.
LogOfCall(i) ==
    CHOOSE j \in 1..Len(log) : log[j].op \in {"send", "next"} /\ log[j].call = i

\* The new message of the call at position i of calls: the user message
\* appended just before the call was made, or none (<<>>).
NewMessageOf(i) ==
    LET j == LogOfCall(i)
    IN  IF j > 1 /\ log[j - 1].op = "appendMessage"
                /\ log[j - 1].message.role = USER
        THEN <<log[j - 1].message>> ELSE <<>>

\* C37: when a send or sendStream has failed, whatever the cause, the
\* session holds the messages of the payload of the call and no message
\* after them, so no assistant message was appended; the new message of
\* the call, if it had one, is still the last message and the thread id is
\* still the one of the payload.
C37_FailureLeavesSession ==
    \A t \in Requests :
        pc[t] = "failed" =>
            LET call == calls[LastCallOf(t)]
                session == heap[call.client]
                newMessage == NewMessageOf(LastCallOf(t))
            IN  /\ messagesJson(getMessages(session)) = call.messages
                /\ newMessage # <<>> =>
                      getMessages(session)[Len(getMessages(session))] = newMessage[1]
                /\ getThreadId(session) = call.threadId
                /\ getThreadId(session) # 0

\* C37 witness: after a send that succeeded, a send with a new message has
\* failed on a body with no content; the session holds the first reply and
\* the new message after it.
C37_Witness ==
    /\ pc[1] = "failed"
    /\ ~req[1].stream
    /\ net[1].status = 200
    /\ net[1].body = <<>>
    /\ Len(getMessages(heap[1])) = 2
    /\ getMessages(heap[1])[1].role = ASSISTANT
    /\ getMessages(heap[1])[2].role = USER
    /\ NewMessageOf(LastCallOf(1)) = <<getMessages(heap[1])[2]>>

\* ------------------------------------------------------------------------
\* C38: the streaming handler terminates.
\* ------------------------------------------------------------------------

\* The number of the writes x among the writes w.
CountOf(w, x) == Cardinality({i \in 1..Len(w) : w[i] = x})

\* The response of request r has its sentinel, once, and has been ended,
\* once, after it.
SentinelAndEnd(r) ==
    /\ CountOf(res[r], WriteDone) = 1
    /\ CountOf(res[r], End) = 1
    /\ Len(res[r]) >= 2
    /\ res[r][Len(res[r]) - 1] = WriteDone
    /\ res[r][Len(res[r])] = End

\* C38: a streaming request that has written its first frame eventually
\* writes the sentinel `data: [DONE]` and ends the response, when the
\* backend answers or fails and its body ends or fails; at no time has it
\* written the sentinel twice or ended the response twice.
C38_StreamingTerminates ==
    /\ [](\A r \in Requests :
            CountOf(res[r], WriteDone) <= 1 /\ CountOf(res[r], End) <= 1)
    /\ \A r \in Requests :
          (req[r].stream /\ InFlight(r)) ~> SentinelAndEnd(r)

\* C38 witness: the transport has failed after a TextDelta of a streaming
\* response whose caller has gone; the sentinel is written and the
\* response ended.
C38_Witness ==
    /\ StreamFailed(1)
    /\ 1 \in closed
    /\ DeltaTexts(gen[1].yielded) # <<>>
    /\ SentinelAndEnd(1)
====
